---- MODULE Spec2Model ----
(***************************************************************************)
(* Model of the Ice Butterfly detector (class ImageRecognition in          *)
(* src/discord_bot.py, section "image recognition.py").                     *)
(*                                                                         *)
(* Images are small single-channel rasters: a sequence of rows, each a     *)
(* sequence of pixel intensities, img[r][c] with r, c counted from 1.      *)
(* None is modelled by the empty sequence.  Scores are kept exact: a       *)
(* correlation score v is stored as the triple <<s, p, q>> with            *)
(* v = s * sqrt(p / q), s in {-1, 0, 1} and p / q in lowest terms, so that *)
(* equal scores have equal representations and comparisons need no         *)
(* floating point.  A threshold is the rational <<n, d>>, d > 0.           *)
(*                                                                         *)
(* Around the detector the module carries its callers: Config.validate and *)
(* main (src/config.py, src/main.py), the bot's commands and monitoring    *)
(* task (src/discord_bot.py), ShopMonitor with its browser session and its *)
(* search for buttons (src/main.py, section "shop monitor.py"), and the    *)
(* web interface's bot_status record.                                      *)
(***************************************************************************)
EXTENDS Integers, Sequences, FiniteSets, TLC

\* Largest screenshot height and width, largest reference height and width.
MaxH == 2
MaxW == 2
MaxRefH == 2
MaxRefW == 2

\* Threads that call the detector at the same time; monitoring checks made.
NumThreads == 2
MaxChecks == 2

\* start_monitoring handlers that can be waiting on their first reply.
MaxPending == 2

\* Selectors in a selector list, and elements one selector can match.
NumSelectors == 3
MaxElements == 2

\* Pixel intensities that occur (two grey levels).
PixelValues == {0, 1}

VARIABLES
    refFile,          \* content of the file at reference_image_path
    reference_image_path,  \* self.reference_image_path
    reference_image,  \* self.reference_image (None = <<>>)
    threshold,        \* self.threshold
    initOutcome,      \* how the constructor ended: "returned" or "raised"
    call,             \* the detection call that has just returned to its caller
    viz,              \* the create_detection_visualization call that has just returned
    earlier,          \* an earlier detect_ice_butterfly call, kept for comparison
    threads,          \* per thread: the detection call it is inside, if any
    config,           \* the Config class attributes that validate reads
    mainState,        \* where main() is, and what it has started
    monitoring_active,     \* IceButterflyBot.monitoring_active
    checks_performed,      \* IceButterflyBot.checks_performed
    last_screenshot_path,  \* ShopMonitor.last_screenshot_path (the file it names)
    bot_status,       \* the web interface's global bot_status
    task_running,     \* the monitoring_task loop has been started
    driver,           \* ShopMonitor.driver is set
    is_logged_in,     \* ShopMonitor.is_logged_in
    shop_accessible,  \* ShopMonitor.shop_accessible
    status_task_running,   \* the status_update_task loop has been started
    starting,         \* start_monitoring handlers waiting on their first reply
    session_initialized,   \* history: the four setup calls have all succeeded
    check,            \* the last iteration of monitoring_task
    finished,         \* the command or ShopMonitor call that has just ended
    lookup            \* the element search that has just ended

\* The detector's attributes and the reference file.
detectorVars ==
    <<refFile, reference_image_path, reference_image, threshold, initOutcome>>

\* The application around the detector.
\* The attributes of ShopMonitor.
monitorVars == <<driver, is_logged_in, shop_accessible, last_screenshot_path>>

\* The attributes of IceButterflyBot and the state of its two task loops.
botVars ==
    <<monitoring_active, checks_performed, task_running, status_task_running,
      starting, session_initialized>>

appVars ==
    <<config, mainState, bot_status, botVars, monitorVars, check, finished, lookup>>

vars == <<detectorVars, call, viz, earlier, threads, appVars>>

----------------------------------------------------------------------------
\* Values

None == <<>>

ImagesUpTo(maxh, maxw) ==
    UNION { [1..h -> [1..w -> PixelValues]] : h \in 1..maxh, w \in 1..maxw }

Screenshots == ImagesUpTo(MaxH, MaxW)
References == ImagesUpTo(MaxRefH, MaxRefW)

Height(img) == Len(img)
Width(img) == Len(img[1])

\* What a path argument can denote: something that is not a path at all
\* (os.path.exists raises TypeError), a path with no file, a file that
\* cv2.imread cannot decode, or a decodable raster.
FilesOf(images) ==
    { [kind |-> "missing", img |-> None], [kind |-> "undecodable", img |-> None] }
        \cup { [kind |-> "image", img |-> i] : i \in images }

PathArgs == FilesOf(Screenshots) \cup { [kind |-> "notapath", img |-> None] }

\* Thresholds the caller can store (Config.MATCH_THRESHOLD defaults to 0.8).
DefaultThreshold == <<4, 5>>
\* The constructor takes any number: -2, -0.5 and 1.5 lie outside [0, 1].
Thresholds ==
    { <<-2, 1>>, <<-1, 2>>, <<0, 1>>, DefaultThreshold, <<1, 1>>, <<3, 2>> }

\* Config.REFERENCE_IMAGE_PATH, by default.
DefaultReferencePath == "ice_butterfly_reference.png"

Zero == <<0, 0, 1>>
One == <<1, 1, 1>>

Sign(x) == IF x < 0 THEN -1 ELSE IF x = 0 THEN 0 ELSE 1

RECURSIVE GCD(_, _)
GCD(a, b) == IF b = 0 THEN a ELSE GCD(b, a % b)

\* The score num / sqrt(den2), den2 > 0, in canonical form.
Score(num, den2) ==
    IF num = 0 THEN Zero
    ELSE LET g == GCD(num * num, den2)
         IN  <<Sign(num), (num * num) \div g, den2 \div g>>

\* sign(v) * v^2 of a score, as a fraction over v[3]; order preserving.
ScoreGE(a, b) == a[1] * a[2] * b[3] >= b[1] * b[2] * a[3]
ScoreGT(a, b) == a[1] * a[2] * b[3] > b[1] * b[2] * a[3]

\* max_val >= self.threshold, for the rational threshold t = <<n, d>>.
MeetsThreshold(v, t) ==
    v[1] * v[2] * t[2] * t[2] >= Sign(t[1]) * t[1] * t[1] * v[3]

----------------------------------------------------------------------------
\* cv2.matchTemplate(image, templ, cv2.TM_CCOEFF_NORMED) and cv2.minMaxLoc

\* The sums over the first k template cells (row-major) of the template
\* value t and the image value i under it, for the window at row r, column
\* c (from 0): <<sum t, sum i, sum t*t, sum i*i, sum t*i>>.
RECURSIVE WindowSums(_, _, _, _, _)
WindowSums(image, templ, r, c, k) ==
    IF k = 0 THEN <<0, 0, 0, 0, 0>>
    ELSE LET w == Width(templ)
             t == templ[((k - 1) \div w) + 1][((k - 1) % w) + 1]
             i == image[r + ((k - 1) \div w) + 1][c + ((k - 1) % w) + 1]
             s == WindowSums(image, templ, r, c, k - 1)
         IN  <<s[1] + t, s[2] + i, s[3] + t * t, s[4] + i * i, s[5] + t * i>>

\* The response at offset (row r, column c), both counted from 0, of templ
\* slid over image: the correlation coefficient of templ and the window.
\* A template without variance gives 1 everywhere; a window without
\* variance gives 0.
Response(image, templ, r, c) ==
    LET area  == Height(templ) * Width(templ)
        s     == WindowSums(image, templ, r, c, area)
        tVar  == area * s[3] - s[1] * s[1]
        wVar  == area * s[4] - s[2] * s[2]
        num   == area * s[5] - s[1] * s[2]
    IN  IF tVar = 0 THEN One
        ELSE IF wVar = 0 THEN Zero
        ELSE Score(num, tVar * wVar)

\* matchTemplate swaps its arguments when the image is smaller than the
\* template in some dimension, and asserts that it is then smaller or equal
\* in both; the assertion failure is a cv2.error.  The result has
\* rows x cols entries, kept in row-major order.
MatchTemplate(image, templ) ==
    LET needswap == Height(image) < Height(templ) \/ Width(image) < Width(templ)
        img  == IF needswap THEN templ ELSE image
        tpl  == IF needswap THEN image ELSE templ
        rows == Height(img) - Height(tpl) + 1
        cols == Width(img) - Width(tpl) + 1
    IN  IF needswap /\ ~(Height(image) <= Height(templ) /\ Width(image) <= Width(templ))
        THEN [error |-> TRUE, rows |-> 0, cols |-> 0, result |-> <<>>]
        ELSE [error |-> FALSE, rows |-> rows, cols |-> cols,
              result |-> [k \in 1..(rows * cols) |->
                             Response(img, tpl, (k - 1) \div cols, (k - 1) % cols)]]

\* A scan that also replaces the best on a tie, keeping the last maximum.
RECURSIVE ScanMaxLast(_, _, _, _, _)
ScanMaxLast(result, n, k, bestIdx, bestVal) ==
    IF k > n THEN <<bestIdx, bestVal>>
    ELSE LET v == result[k]
         IN  IF ScoreGE(v, bestVal)
             THEN ScanMaxLast(result, n, k + 1, k, v)
             ELSE ScanMaxLast(result, n, k + 1, bestIdx, bestVal)

\* The scan of minMaxLoc: entry k replaces the best so far only when it is
\* strictly greater, so the first maximum in row-major order is kept.
RECURSIVE ScanMax(_, _, _, _, _)
ScanMax(result, n, k, bestIdx, bestVal) ==
    IF k > n THEN <<bestIdx, bestVal>>
    ELSE LET v == result[k]
         IN  IF ScoreGT(v, bestVal)
             THEN ScanMax(result, n, k + 1, k, v)
             ELSE ScanMax(result, n, k + 1, bestIdx, bestVal)

\* A minMaxLoc whose location is read as (row, column).
MinMaxLocRowCol(m) ==
    LET first == m.result[1]
        best  == ScanMax(m.result, m.rows * m.cols, 2, 1, first)
    IN  [max_val |-> best[2],
         max_loc |-> <<(best[1] - 1) \div m.cols, (best[1] - 1) % m.cols>>]

\* minMaxLoc: the maximum of the surface and its location (x, y) =
\* (column, row), both counted from 0.
MinMaxLoc(m) ==
    LET first == m.result[1]
        best  == ScanMax(m.result, m.rows * m.cols, 2, 1, first)
    IN  [max_val |-> best[2],
         max_loc |-> <<(best[1] - 1) % m.cols, (best[1] - 1) \div m.cols>>]

----------------------------------------------------------------------------
\* ImageRecognition

\* A loader that lets the failure escape to the constructor's caller.
LoadReferenceImageRaising(file) ==
    [image  |-> IF file.kind = "image" THEN file.img ELSE None,
     raised |-> file.kind # "image"]

\* _load_reference_image: the value self.reference_image has after it and
\* whether an exception leaves it.  A missing file and an undecodable file
\* are logged and leave the image None.
LoadReferenceImage(file) ==
    [image  |-> IF file.kind = "image" THEN file.img ELSE None,
     raised |-> FALSE]

\* A return of (found, confidence, position) after the file operations fs;
\* matched lists the scales (indices into Scales) that were matched.
Returned(found, confidence, position, fs) ==
    [raised |-> FALSE, caught |-> FALSE, found |-> found,
     confidence |-> confidence, position |-> position, fs |-> fs,
     matched |-> <<>>]

\* An exception leaving the try block, after the file operations fs.
Thrown(fs) ==
    [raised |-> TRUE, caught |-> FALSE, found |-> FALSE,
     confidence |-> Zero, position |-> None, fs |-> fs, matched |-> <<>>]

\* A body that brings the threshold into [0, 1] before comparing.
DetectBodyClamped(ref, thr, arg) ==
    IF ref = None THEN Returned(FALSE, Zero, None, <<>>)
    ELSE IF arg.kind = "notapath" THEN Thrown(<<"exists">>)
    ELSE IF arg.kind = "missing" THEN Returned(FALSE, Zero, None, <<"exists">>)
    ELSE IF arg.kind = "undecodable"
         THEN Returned(FALSE, Zero, None, <<"exists", "imread">>)
    ELSE LET m == MatchTemplate(arg.img, ref)
         IN  IF m.error THEN Thrown(<<"exists", "imread">>)
             ELSE LET mm == MinMaxLoc(m)
                      t  == IF thr[1] < 0 THEN <<0, 1>>
                            ELSE IF thr[1] > thr[2] THEN <<1, 1>> ELSE thr
                  IN  IF MeetsThreshold(mm.max_val, t)
                      THEN Returned(TRUE, mm.max_val, mm.max_loc, <<"exists", "imread">>)
                      ELSE Returned(FALSE, mm.max_val, mm.max_loc, <<"exists", "imread">>)

\* A body that compares with > instead of >=.
DetectBodyStrict(ref, thr, arg) ==
    IF ref = None THEN Returned(FALSE, Zero, None, <<>>)
    ELSE IF arg.kind = "notapath" THEN Thrown(<<"exists">>)
    ELSE IF arg.kind = "missing" THEN Returned(FALSE, Zero, None, <<"exists">>)
    ELSE IF arg.kind = "undecodable"
         THEN Returned(FALSE, Zero, None, <<"exists", "imread">>)
    ELSE LET m == MatchTemplate(arg.img, ref)
         IN  IF m.error THEN Thrown(<<"exists", "imread">>)
             ELSE LET mm == MinMaxLoc(m)
                  IN  IF ~MeetsThreshold(mm.max_val, thr) \/ mm.max_val = Score(thr[1], thr[2] * thr[2])
                      THEN Returned(FALSE, mm.max_val, mm.max_loc, <<"exists", "imread">>)
                      ELSE Returned(TRUE, mm.max_val, mm.max_loc, <<"exists", "imread">>)

\* A body whose failure returns carry the origin as position.
DetectBodyOriginOnFailure(ref, thr, arg) ==
    IF ref = None THEN Returned(FALSE, Zero, <<0, 0>>, <<>>)
    ELSE IF arg.kind = "notapath" THEN Thrown(<<"exists">>)
    ELSE IF arg.kind = "missing" THEN Returned(FALSE, Zero, <<0, 0>>, <<"exists">>)
    ELSE IF arg.kind = "undecodable"
         THEN Returned(FALSE, Zero, <<0, 0>>, <<"exists", "imread">>)
    ELSE LET m == MatchTemplate(arg.img, ref)
         IN  IF m.error THEN Thrown(<<"exists", "imread">>)
             ELSE LET mm == MinMaxLoc(m)
                  IN  IF MeetsThreshold(mm.max_val, thr)
                      THEN Returned(TRUE, mm.max_val, mm.max_loc, <<"exists", "imread">>)
                      ELSE Returned(FALSE, mm.max_val, mm.max_loc, <<"exists", "imread">>)

\* The try block of detect_ice_butterfly.
DetectBody(ref, thr, arg) ==
    IF ref = None THEN Returned(FALSE, Zero, None, <<>>)
    ELSE IF arg.kind = "notapath" THEN Thrown(<<"exists">>)
    ELSE IF arg.kind = "missing" THEN Returned(FALSE, Zero, None, <<"exists">>)
    ELSE IF arg.kind = "undecodable"
         THEN Returned(FALSE, Zero, None, <<"exists", "imread">>)
    ELSE LET m == MatchTemplate(arg.img, ref)
         IN  IF m.error THEN Thrown(<<"exists", "imread">>)
             ELSE LET mm == MinMaxLoc(m)
                  IN  IF MeetsThreshold(mm.max_val, thr)
                      THEN Returned(TRUE, mm.max_val, mm.max_loc, <<"exists", "imread">>)
                      ELSE Returned(FALSE, mm.max_val, mm.max_loc, <<"exists", "imread">>)

\* No except clause: the exception goes on to the caller.
CatchNothing(res) == res

\* except Exception: log and return (False, 0.0, None).
CatchAll(res) ==
    IF res.raised
    THEN [raised |-> FALSE, caught |-> TRUE, found |-> FALSE,
          confidence |-> Zero, position |-> None, fs |-> res.fs,
          matched |-> res.matched]
    ELSE res

detect_ice_butterfly(ref, thr, arg) == CatchAll(DetectBody(ref, thr, arg))

----------------------------------------------------------------------------
\* cv2.resize(src, (width, height)), bilinear, 8-bit fixed point

\* Interpolation weights are scaled by 2^11.
INTER_RESIZE_COEF_SCALE == 2048

\* For destination index d (from 0) of dst cells over src cells: the source
\* index and the weight of its right/lower neighbour, as a fraction num/den
\* of the cell: f = (d + 0.5) * src / dst - 0.5.
SrcIndex(d, src, dst) == ((2 * d + 1) * src - dst) \div (2 * dst)
SrcFracNum(d, src, dst) == ((2 * d + 1) * src - dst) % (2 * dst)

\* round(num / den * 2048), the weight as a short.
Coef(num, den) == (2 * INTER_RESIZE_COEF_SCALE * num + den) \div (2 * den)

Clip(x, lo, hi) == IF x < lo THEN lo ELSE IF x > hi THEN hi ELSE x

\* Horizontal pass for destination column dx (from 0) over source row row:
\* outside the source the nearest column is taken with weight 1.
HResize(row, dx, dstW) ==
    LET sw == Len(row)
        sx == SrcIndex(dx, sw, dstW)
        fn == SrcFracNum(dx, sw, dstW)
        den == 2 * dstW
    IN  IF sx < 0 THEN row[1] * INTER_RESIZE_COEF_SCALE
        ELSE IF sx >= sw - 1 THEN row[sw] * INTER_RESIZE_COEF_SCALE
        ELSE row[sx + 1] * Coef(den - fn, den) + row[sx + 2] * Coef(fn, den)

\* Vertical pass for destination row dy (from 0): the two source rows are
\* clipped into the image, the weights are not.
ResizePixel(src, dy, dx, dstH, dstW) ==
    LET sh == Height(src)
        sy == SrcIndex(dy, sh, dstH)
        fn == SrcFracNum(dy, sh, dstH)
        den == 2 * dstH
        b0 == Coef(den - fn, den)
        b1 == Coef(fn, den)
        S0 == HResize(src[Clip(sy, 0, sh - 1) + 1], dx, dstW)
        S1 == HResize(src[Clip(sy + 1, 0, sh - 1) + 1], dx, dstW)
    IN  (((b0 * (S0 \div 16)) \div 65536) + ((b1 * (S1 \div 16)) \div 65536) + 2) \div 4

\* The first n pixels of destination row dy, and the first n rows.
RECURSIVE ResizeRow(_, _, _, _, _)
ResizeRow(src, dy, n, dstH, dstW) ==
    IF n = 0 THEN <<>>
    ELSE Append(ResizeRow(src, dy, n - 1, dstH, dstW),
                ResizePixel(src, dy, n - 1, dstH, dstW))

RECURSIVE ResizeRows(_, _, _, _)
ResizeRows(src, n, dstH, dstW) ==
    IF n = 0 THEN <<>>
    ELSE Append(ResizeRows(src, n - 1, dstH, dstW),
                ResizeRow(src, n - 1, dstW, dstH, dstW))

Resize(src, width, height) == ResizeRows(src, height, height, width)

----------------------------------------------------------------------------
\* detect_multiple_scales

\* scales = [0.5, 0.75, 1.0, 1.25, 1.5], in quarters.
Scales == <<2, 3, 4, 5, 6>>

\* int(n * scale)
Scaled(n, scale) == (n * scale) \div 4

\* A loop that ends at the first scale it cannot match (break for continue).
RECURSIVE ScaleLoopBreak(_, _, _, _, _, _)
ScaleLoopBreak(ref, shot, i, best_confidence, best_position, matched) ==
    IF i > Len(Scales) THEN <<best_confidence, best_position, matched>>
    ELSE LET width  == Scaled(Width(ref), Scales[i])
             height == Scaled(Height(ref), Scales[i])
         IN  IF width <= 0 \/ height <= 0
             THEN <<best_confidence, best_position, matched>>
             ELSE IF height > Height(shot) \/ width > Width(shot)
             THEN <<best_confidence, best_position, matched>>
             ELSE LET mm == MinMaxLoc(MatchTemplate(shot, Resize(ref, width, height)))
                  IN  IF ScoreGT(mm.max_val, best_confidence)
                      THEN ScaleLoopBreak(ref, shot, i + 1, mm.max_val, mm.max_loc,
                                          Append(matched, i))
                      ELSE ScaleLoopBreak(ref, shot, i + 1, best_confidence,
                                          best_position, Append(matched, i))

\* The for loop over scales from index i on, carrying best_confidence and
\* best_position, and the scales matched so far (those that reached
\* cv2.matchTemplate).
RECURSIVE ScaleLoop(_, _, _, _, _, _)
ScaleLoop(ref, shot, i, best_confidence, best_position, matched) ==
    IF i > Len(Scales) THEN <<best_confidence, best_position, matched>>
    ELSE LET width  == Scaled(Width(ref), Scales[i])
             height == Scaled(Height(ref), Scales[i])
         IN  IF width <= 0 \/ height <= 0
             THEN ScaleLoop(ref, shot, i + 1, best_confidence, best_position, matched)
             ELSE IF height > Height(shot) \/ width > Width(shot)
             THEN ScaleLoop(ref, shot, i + 1, best_confidence, best_position, matched)
             ELSE LET mm == MinMaxLoc(MatchTemplate(shot, Resize(ref, width, height)))
                  IN  IF ScoreGT(mm.max_val, best_confidence)
                      THEN ScaleLoop(ref, shot, i + 1, mm.max_val, mm.max_loc,
                                     Append(matched, i))
                      ELSE ScaleLoop(ref, shot, i + 1, best_confidence,
                                     best_position, Append(matched, i))

\* The two returns after the loop, for best = <<best_confidence,
\* best_position, matched>>.
AfterLoop(found, best) ==
    [Returned(found, best[1], best[2], <<"exists", "imread">>)
        EXCEPT !.matched = best[3]]

\* A body that compares with > instead of >=.
MultiBodyStrict(ref, thr, arg) ==
    IF ref = None THEN Returned(FALSE, Zero, None, <<>>)
    ELSE IF arg.kind = "notapath" THEN Thrown(<<"exists">>)
    ELSE IF arg.kind = "missing" THEN Returned(FALSE, Zero, None, <<"exists">>)
    ELSE IF arg.kind = "undecodable"
         THEN Returned(FALSE, Zero, None, <<"exists", "imread">>)
    ELSE LET best == ScaleLoop(ref, arg.img, 1, Zero, None, <<>>)
         IN  IF ~MeetsThreshold(best[1], thr) \/ best[1] = Score(thr[1], thr[2] * thr[2])
             THEN AfterLoop(FALSE, best)
             ELSE AfterLoop(TRUE, best)

\* A body that tests the path before the reference.
MultiBodyPathFirst(ref, thr, arg) ==
    IF arg.kind = "notapath" THEN Thrown(<<"exists">>)
    ELSE IF arg.kind = "missing" \/ ref = None
         THEN Returned(FALSE, Zero, None, <<"exists">>)
    ELSE IF arg.kind = "undecodable"
         THEN Returned(FALSE, Zero, None, <<"exists", "imread">>)
    ELSE LET best == ScaleLoop(ref, arg.img, 1, Zero, None, <<>>)
         IN  IF MeetsThreshold(best[1], thr)
             THEN AfterLoop(TRUE, best)
             ELSE AfterLoop(FALSE, best)

\* The try block of detect_multiple_scales.
MultiBody(ref, thr, arg) ==
    IF ref = None THEN Returned(FALSE, Zero, None, <<>>)
    ELSE IF arg.kind = "notapath" THEN Thrown(<<"exists">>)
    ELSE IF arg.kind = "missing" THEN Returned(FALSE, Zero, None, <<"exists">>)
    ELSE IF arg.kind = "undecodable"
         THEN Returned(FALSE, Zero, None, <<"exists", "imread">>)
    ELSE LET best == ScaleLoop(ref, arg.img, 1, Zero, None, <<>>)
         IN  IF MeetsThreshold(best[1], thr)
             THEN AfterLoop(TRUE, best)
             ELSE AfterLoop(FALSE, best)

detect_multiple_scales(ref, thr, arg) == CatchAll(MultiBody(ref, thr, arg))

----------------------------------------------------------------------------
\* create_detection_visualization

\* Position arguments: None (what a failed detection returns) or an offset.
Positions == { None, <<0, 0>>, <<0, 1>> }

\* What output_path is to cv2.imwrite: a file it can write, a file it
\* cannot open (imwrite returns False), or a name whose extension has no
\* encoder (imwrite raises cv2.error).
OutputPaths == { "writable", "unwritable", "noencoder" }

\* result is the value returned; written tells whether the annotated image
\* is in the file at output_path.
VizReturned(result, written) ==
    [raised |-> FALSE, caught |-> FALSE, result |-> result, written |-> written]

VizThrown ==
    [raised |-> TRUE, caught |-> FALSE, result |-> FALSE, written |-> FALSE]

\* The try block of create_detection_visualization.  The path is tested
\* before the reference; position[0] on None is a TypeError; the value
\* cv2.imwrite returns is not looked at.
VizBody(ref, arg, position, out) ==
    IF arg.kind = "notapath" THEN VizThrown
    ELSE IF arg.kind = "missing" \/ ref = None THEN VizReturned(FALSE, FALSE)
    ELSE IF arg.kind = "undecodable" THEN VizReturned(FALSE, FALSE)
    ELSE IF position = None THEN VizThrown
    ELSE IF out = "noencoder" THEN VizThrown
    ELSE VizReturned(TRUE, out = "writable")

\* except Exception: log and return False.
VizCatchAll(res) ==
    IF res.raised
    THEN [raised |-> FALSE, caught |-> TRUE, result |-> FALSE, written |-> FALSE]
    ELSE res

create_detection_visualization(ref, arg, position, out) ==
    VizCatchAll(VizBody(ref, arg, position, out))

----------------------------------------------------------------------------
\* State machine

NoCall == [op |-> "none", arg |-> [kind |-> "missing", img |-> None],
           raised |-> FALSE, caught |-> FALSE, found |-> FALSE,
           confidence |-> Zero, position |-> None, fs |-> <<>>,
           matched |-> <<>>]

CallRecord(op, arg, res) ==
    [op |-> op, arg |-> arg, raised |-> res.raised, caught |-> res.caught,
     found |-> res.found, confidence |-> res.confidence,
     position |-> res.position, fs |-> res.fs, matched |-> res.matched]

NoViz == [op |-> "none", arg |-> [kind |-> "missing", img |-> None],
          position |-> None, out |-> "writable",
          raised |-> FALSE, caught |-> FALSE, result |-> FALSE, written |-> FALSE]

VizRecord(arg, position, out, res) ==
    [op |-> "visualize", arg |-> arg, position |-> position, out |-> out,
     raised |-> res.raised, caught |-> res.caught, result |-> res.result,
     written |-> res.written]

\* ImageRecognition.__init__(path, thr) on the reference file: stores path
\* and threshold and loads the reference.  No call has been made.
Constructed(path, thr) ==
    /\ refFile \in FilesOf(References)
    /\ reference_image_path = path
    /\ threshold = thr
    /\ reference_image = LoadReferenceImage(refFile).image
    /\ initOutcome = IF LoadReferenceImage(refFile).raised THEN "raised" ELSE "returned"
    /\ call = NoCall
    /\ viz = NoViz
    /\ earlier = NoCall

Threads == 1..NumThreads

NotInside == [pc |-> "idle", op |-> "none", arg |-> [kind |-> "missing", img |-> None]]

\* A path that take_screenshot returned None for.
NoShot == [kind |-> "nopath", img |-> None]

NoCheck ==
    [done |-> FALSE, aborted |-> FALSE, shot |-> NoShot, is_found |-> FALSE,
     notified |-> 0]

\* No command or ShopMonitor call has just ended.
NoEnv == [driver |-> "fail", nav |-> FALSE, login |-> "none", shop |-> "none"]

NoResult ==
    [op |-> "none", ret |-> FALSE, path |-> NoShot, steps |-> <<>>,
     note |-> "none", env |-> NoEnv]

\* No element search has just ended.
NoLookup == [list |-> "none", page |-> <<>>, button |-> None, queried |-> <<>>]

\* The module-level bot_status of the web interface.
InitialBotStatus ==
    [active |-> FALSE, checks_performed |-> 0, ice_butterfly_found |-> FALSE,
     last_screenshot |-> NoShot]

\* Config attributes: the token (empty or not), the interval in seconds and
\* the match threshold.
Tokens == { "", "token" }
Intervals == { 0, 1, 10 }
Configs ==
    [DISCORD_BOT_TOKEN : Tokens, MONITORING_INTERVAL : Intervals,
     MATCH_THRESHOLD : Thresholds]

\* The attributes as IceButterflyBot.__init__ and ShopMonitor.__init__ set
\* them; no thread is inside the detector.
Fresh ==
    /\ threads = [t \in Threads |-> NotInside]
    /\ monitoring_active = FALSE
    /\ checks_performed = 0
    /\ last_screenshot_path = NoShot
    /\ task_running = FALSE
    /\ driver = FALSE
    /\ is_logged_in = FALSE
    /\ shop_accessible = FALSE
    /\ status_task_running = FALSE
    /\ starting = 0
    /\ session_initialized = FALSE
    /\ check = NoCheck
    /\ finished = NoResult
    /\ lookup = NoLookup

\* main() has not run.
NotStarted ==
    /\ mainState = [pc |-> "start", exit |-> -1, web |-> FALSE, bot |-> FALSE]
    /\ bot_status = InitialBotStatus
    /\ Fresh

\* A detector built directly, on any threshold.
Init ==
    /\ \E thr \in Thresholds :
           /\ Constructed(DefaultReferencePath, thr)
           /\ config = [DISCORD_BOT_TOKEN |-> "token", MONITORING_INTERVAL |-> 10,
                        MATCH_THRESHOLD |-> thr]
    /\ NotStarted

\* No call has returned that its caller has not yet taken.
Idle == call.op = "none" /\ viz.op = "none"

\* Nor is there a command, a ShopMonitor call, a monitoring iteration or an
\* element search whose outcome has not been taken.
Quiet ==
    /\ Idle
    /\ finished.op = "none"
    /\ lookup.list = "none"
    /\ check = NoCheck

DetectCall ==
    /\ Idle
    /\ \E arg \in PathArgs :
           call' = CallRecord("detect", arg,
                              detect_ice_butterfly(reference_image, threshold, arg))
    /\ UNCHANGED <<detectorVars, viz, earlier, threads, appVars>>

\* A multi-scale call that leaves the reference resized by the last scale
\* in self.reference_image.
MultiScaleCallKeepsResized ==
    /\ Idle
    /\ \E arg \in PathArgs :
           call' = CallRecord("multi", arg,
                              detect_multiple_scales(reference_image, threshold, arg))
    /\ reference_image' =
           IF reference_image = None THEN None
           ELSE Resize(reference_image,
                       Scaled(Width(reference_image), Scales[Len(Scales)]),
                       Scaled(Height(reference_image), Scales[Len(Scales)]))
    /\ UNCHANGED <<refFile, reference_image_path, threshold, initOutcome>>
    /\ UNCHANGED <<viz, earlier, threads, appVars>>

MultiScaleCall ==
    /\ Idle
    /\ \E arg \in PathArgs :
           call' = CallRecord("multi", arg,
                              detect_multiple_scales(reference_image, threshold, arg))
    /\ UNCHANGED <<detectorVars, viz, earlier, threads, appVars>>

\* A visualization call that reads the screenshot into self.reference_image
\* instead of a local.
VisualizeCallIntoReference ==
    /\ Idle
    /\ \E arg \in PathArgs, position \in Positions, out \in OutputPaths :
           /\ viz' = VizRecord(arg, position, out,
                  create_detection_visualization(reference_image, arg, position, out))
           /\ reference_image' =
                  IF arg.kind = "image" THEN arg.img ELSE reference_image
    /\ UNCHANGED <<refFile, reference_image_path, threshold, initOutcome>>
    /\ UNCHANGED <<call, earlier, threads, appVars>>

VisualizeCall ==
    /\ Idle
    /\ \E arg \in PathArgs, position \in Positions, out \in OutputPaths :
           viz' = VizRecord(arg, position, out,
                  create_detection_visualization(reference_image, arg, position, out))
    /\ UNCHANGED <<detectorVars, call, earlier, threads, appVars>>

\* The caller unpacks the returned tuple and goes on; the detector keeps
\* nothing of the call.
Consume ==
    /\ ~Quiet
    /\ call' = NoCall
    /\ viz' = NoViz
    /\ finished' = NoResult
    /\ lookup' = NoLookup
    /\ check' = NoCheck
    /\ UNCHANGED <<detectorVars, earlier, threads>>
    /\ UNCHANGED <<config, mainState, bot_status, botVars, monitorVars>>

\* As Consume, but the observer keeps the outcome of this
\* detect_ice_butterfly call to compare later calls with.
Remember ==
    /\ call.op = "detect"
    /\ earlier.op = "none"
    /\ earlier' = call
    /\ call' = NoCall
    /\ UNCHANGED <<detectorVars, viz, threads, appVars>>

Next ==
    \/ DetectCall
    \/ MultiScaleCall
    \/ VisualizeCall
    \/ Consume

Spec == Init /\ [][Next]_vars

NextHist ==
    \/ Next
    \/ Remember

\* The detector as the bot builds it, with Config.MATCH_THRESHOLD at its
\* default.
InitHist == Init /\ threshold = DefaultThreshold

SpecHist == InitHist /\ [][NextHist]_vars

----------------------------------------------------------------------------
\* Detection calls from several threads

\* Screenshots the threads pass: one row of pixels.
ThreadArgs ==
    FilesOf(ImagesUpTo(1, MaxW)) \cup { [kind |-> "notapath", img |-> None] }

DetectionOps == { "detect", "multi" }

\* The method op on the detector as it is now.
Detection(op, arg) ==
    IF op = "detect" THEN detect_ice_butterfly(reference_image, threshold, arg)
    ELSE detect_multiple_scales(reference_image, threshold, arg)

\* The guards at the head of both methods return (or raise into the except
\* block) before any matching: no reference, or no decodable screenshot.
ReturnsEarly(arg) == reference_image = None \/ arg.kind # "image"

\* Thread t calls a detection method and runs it up to the point where the
\* screenshot is read; a call that ends in the guards returns at once.
ThreadEnter(t) ==
    /\ threads[t].pc = "idle"
    /\ \E op \in DetectionOps, arg \in ThreadArgs :
           IF ReturnsEarly(arg)
           THEN /\ Idle
                /\ call' = CallRecord(op, arg, Detection(op, arg))
                /\ UNCHANGED threads
           ELSE /\ threads' = [threads EXCEPT ![t] =
                                  [pc |-> "inside", op |-> op, arg |-> arg]]
                /\ UNCHANGED call
    /\ UNCHANGED <<detectorVars, viz, earlier, appVars>>

\* A multi-scale call that assigns the resized template to
\* self.reference_image.
ThreadLeaveKeepsResized(t) ==
    /\ threads[t].pc = "inside"
    /\ Idle
    /\ call' = CallRecord(threads[t].op, threads[t].arg,
                          Detection(threads[t].op, threads[t].arg))
    /\ threads' = [threads EXCEPT ![t] = NotInside]
    /\ reference_image' =
           IF threads[t].op = "multi"
           THEN Resize(reference_image,
                       Scaled(Width(reference_image), Scales[Len(Scales)]),
                       Scaled(Height(reference_image), Scales[Len(Scales)]))
           ELSE reference_image
    /\ UNCHANGED <<refFile, reference_image_path, threshold, initOutcome>>
    /\ UNCHANGED <<viz, earlier, appVars>>

\* Thread t runs the rest of its call, matching the screenshot against
\* self.reference_image as it is read then, and returns.
ThreadLeave(t) ==
    /\ threads[t].pc = "inside"
    /\ Idle
    /\ call' = CallRecord(threads[t].op, threads[t].arg,
                          Detection(threads[t].op, threads[t].arg))
    /\ threads' = [threads EXCEPT ![t] = NotInside]
    /\ UNCHANGED <<detectorVars, viz, earlier, appVars>>

NextThreads ==
    \/ \E t \in Threads : ThreadEnter(t)
    \/ \E t \in Threads : ThreadLeave(t)
    \/ Consume

SpecThreads == InitHist /\ [][NextThreads]_vars

----------------------------------------------------------------------------
\* The application: Config.validate, main, and the bot's monitoring task

\* A validate without the range check on MATCH_THRESHOLD.
ValidateNoThreshold(cfg) ==
    LET e1 == IF cfg.DISCORD_BOT_TOKEN = ""
              THEN <<"DISCORD_BOT_TOKEN is required">> ELSE <<>>
        e2 == IF cfg.MONITORING_INTERVAL < 1
              THEN Append(e1, "MONITORING_INTERVAL must be at least 1 second")
              ELSE e1
    IN  e2

\* Config.validate: the list of errors, in the order they are appended.
Validate(cfg) ==
    LET e1 == IF cfg.DISCORD_BOT_TOKEN = ""
              THEN <<"DISCORD_BOT_TOKEN is required">> ELSE <<>>
        e2 == IF cfg.MONITORING_INTERVAL < 1
              THEN Append(e1, "MONITORING_INTERVAL must be at least 1 second")
              ELSE e1
        e3 == IF cfg.MATCH_THRESHOLD[1] < 0
                 \/ cfg.MATCH_THRESHOLD[1] > cfg.MATCH_THRESHOLD[2]
              THEN Append(e2, "MATCH_THRESHOLD must be between 0 and 1")
              ELSE e2
    IN  e3

\* validate_environment: false on a configuration error, and false when
\* the reference file is not there after create_reference_image_if_missing
\* (refFile is the file as it is then).
validate_environment(cfg, file) ==
    IF Validate(cfg) # <<>> THEN FALSE
    ELSE IF file.kind = "missing" THEN FALSE
    ELSE TRUE

Exited(code, web) == [pc |-> "exited", exit |-> code, web |-> web, bot |-> FALSE]

\* main() up to bot.run: validation, the web interface thread, the bot and
\* the first update_bot_status.  An exception while the bot is built is
\* caught and gives exit code 1.
Main ==
    /\ mainState.pc = "start"
    /\ IF ~validate_environment(config, refFile)
       THEN /\ mainState' = Exited(1, FALSE)
            /\ UNCHANGED bot_status
       ELSE \E botRaises \in BOOLEAN :
                IF botRaises
                THEN /\ mainState' = Exited(1, TRUE)
                     /\ UNCHANGED bot_status
                ELSE /\ mainState' = [pc |-> "running", exit |-> -1,
                                      web |-> TRUE, bot |-> TRUE]
                     /\ bot_status' =
                            [active |-> TRUE, checks_performed |-> 0,
                             ice_butterfly_found |-> FALSE,
                             last_screenshot |-> NoShot]
    /\ UNCHANGED <<detectorVars, call, viz, earlier, threads>>
    /\ UNCHANGED <<config, botVars, monitorVars, check, finished, lookup>>

\* bot.run returns (exit code 0) or raises (exit code 1).
BotRunEnds ==
    /\ mainState.pc = "running"
    /\ \E code \in {0, 1} :
           mainState' = [pc |-> "exited", exit |-> code, web |-> TRUE, bot |-> TRUE]
    /\ UNCHANGED <<detectorVars, call, viz, earlier, threads>>
    /\ UNCHANGED <<config, bot_status, botVars, monitorVars, check, finished,
                   lookup>>

\* ShopMonitor's driver, is_logged_in and shop_accessible as one value.
Monitor ==
    [driver |-> driver, is_logged_in |-> is_logged_in,
     shop_accessible |-> shop_accessible]

\* ShopMonitor.__init__
NewMonitor ==
    [driver |-> FALSE, is_logged_in |-> FALSE, shop_accessible |-> FALSE]

\* How the browser start ends: a driver is created and configured, both
\* uc.Chrome and webdriver.Chrome raise, or a driver is created and
\* set_window_size or implicitly_wait raises.
DriverOutcomes == { "ok", "fail", "configfail" }

\* How the login page turns out: the search of guest_selectors chooses a
\* button, none is chosen and _create_random_account succeeds, neither, or
\* a call on the driver raises.
LoginOutcomes == { "guest", "account", "none", "raises" }

\* How the shop page turns out: the search of shop_selectors chooses a
\* button, none is chosen, or a call on the driver raises.
ShopOutcomes == { "found", "none", "raises" }

\* What the browser and the page do during a session setup.
SessionEnvs ==
    [driver : DriverOutcomes, nav : BOOLEAN, login : LoginOutcomes,
     shop : ShopOutcomes]

\* What the checks on a matched element give: is_displayed() and
\* is_enabled() are both true, one of them is false, or one of them raises
\* (the element has gone stale).
ElementStates == { "ok", "hidden", "stale" }

\* What find_elements gives for one selector: an exception, or the list of
\* matched elements.
SelectorOutcomes ==
    { [raises |-> TRUE, elements |-> <<>>] }
        \cup { [raises |-> FALSE, elements |-> e] :
                    e \in UNION { [1..n -> ElementStates] : n \in 0..MaxElements } }

\* A page as a selector list sees it: the outcome of each selector in turn.
Pages == [1..NumSelectors -> SelectorOutcomes]

\* The four selector lists that are searched in this way.
SelectorLists ==
    { "play_selectors", "guest_selectors", "shop_selectors", "potion_selectors" }

\* The inner loop over the elements of one selector, from element j on:
\* the index of the first element that is displayed and enabled (0 when
\* the list ends without one), or an exception out of a check.
RECURSIVE ScanElements(_, _)
ScanElements(elements, j) ==
    IF j > Len(elements) THEN [raised |-> FALSE, found |-> 0]
    ELSE IF elements[j] = "stale" THEN [raised |-> TRUE, found |-> 0]
    ELSE IF elements[j] = "ok" THEN [raised |-> FALSE, found |-> j]
    ELSE ScanElements(elements, j + 1)

\* A search in which an exception ends the loop over the selectors.
RECURSIVE FindButtonAborting(_, _, _)
FindButtonAborting(page, i, queried) ==
    IF i > Len(page) THEN [button |-> None, queried |-> queried]
    ELSE LET q == Append(queried, i)
             r == ScanElements(page[i].elements, 1)
         IN  IF page[i].raises \/ r.raised
             THEN [button |-> None, queried |-> q]
             ELSE IF r.found # 0
             THEN [button |-> <<i, r.found>>, queried |-> q]
             ELSE FindButtonAborting(page, i + 1, q)

\* The loop over a selector list from selector i on, as written in
\* login_as_guest, access_shop and _navigate_to_potions_section: the
\* button chosen (selector index, element index) or None, and the
\* selectors that were given to find_elements, in order.
RECURSIVE FindButton(_, _, _)
FindButton(page, i, queried) ==
    IF i > Len(page) THEN [button |-> None, queried |-> queried]
    ELSE LET q == Append(queried, i)
             r == ScanElements(page[i].elements, 1)
         IN  IF page[i].raises \/ r.raised
             THEN FindButton(page, i + 1, q)
             ELSE IF r.found # 0
             THEN [button |-> <<i, r.found>>, queried |-> q]
             ELSE FindButton(page, i + 1, q)

\* ShopMonitor.setup_driver
setup_driver(m, d) ==
    [ret |-> d = "ok",
     m   |-> IF d = "fail" THEN m ELSE [m EXCEPT !.driver = TRUE]]

\* ShopMonitor.navigate_to_game: without a driver self.driver.get raises
\* and the except block returns False.
navigate_to_game(m, loaded) == [ret |-> m.driver /\ loaded, m |-> m]

\* ShopMonitor.login_as_guest, _create_random_account included.
login_as_guest(m, l) ==
    IF m.driver /\ l \in { "guest", "account" }
    THEN [ret |-> TRUE, m |-> [m EXCEPT !.is_logged_in = TRUE]]
    ELSE [ret |-> FALSE, m |-> m]

\* ShopMonitor.access_shop: shop_accessible is set whether or not
\* _navigate_to_potions_section succeeded.
access_shop(m, sh) ==
    IF m.driver /\ sh = "found"
    THEN [ret |-> TRUE, m |-> [m EXCEPT !.shop_accessible = TRUE]]
    ELSE [ret |-> FALSE, m |-> m]

\* The four setup calls run to the end whatever each returns.
SessionStepsAll(m, env) ==
    LET a == setup_driver(m, env.driver)
        b == navigate_to_game(a.m, env.nav)
        c == login_as_guest(b.m, env.login)
        d == access_shop(c.m, env.shop)
    IN  [ret |-> d.ret, m |-> d.m,
         steps |-> <<"setup_driver", "navigate_to_game", "login_as_guest",
                     "access_shop">>]

\* The four setup calls of restart_session and of monitoring_task's first
\* iteration, each returning on the first call that returns False.
SessionSteps(m, env) ==
    LET a == setup_driver(m, env.driver)
        b == navigate_to_game(a.m, env.nav)
        c == login_as_guest(b.m, env.login)
        d == access_shop(c.m, env.shop)
    IN  IF ~a.ret
        THEN [ret |-> FALSE, m |-> a.m, steps |-> <<"setup_driver">>]
        ELSE IF ~b.ret
        THEN [ret |-> FALSE, m |-> b.m,
              steps |-> <<"setup_driver", "navigate_to_game">>]
        ELSE IF ~c.ret
        THEN [ret |-> FALSE, m |-> c.m,
              steps |-> <<"setup_driver", "navigate_to_game", "login_as_guest">>]
        ELSE [ret |-> d.ret, m |-> d.m,
              steps |-> <<"setup_driver", "navigate_to_game", "login_as_guest",
                          "access_shop">>]

\* ShopMonitor.restart_session: the old driver is quit (a failure of quit
\* is caught), the three attributes are reset, then the setup calls run.
restart_session(m, env) == SessionSteps(NewMonitor, env)

\* ShopMonitor.cleanup: when driver.quit raises, the except block logs and
\* the driver stays set.
cleanup(m, quitRaises) ==
    IF m.driver /\ ~quitRaises THEN [m EXCEPT !.driver = FALSE] ELSE m

\* ShopMonitor.get_shop_status
get_shop_status(m, last) ==
    [driver_active |-> m.driver, logged_in |-> m.is_logged_in,
     shop_accessible |-> m.shop_accessible, last_screenshot |-> last]

\* What driver.save_screenshot leaves: an exception (no path), a path with
\* no file behind it (it returned False), or a screenshot file (of one row
\* of pixels).
ShotOutcomes ==
    { NoShot, [kind |-> "missing", img |-> None] }
        \cup { [kind |-> "image", img |-> i] : i \in ImagesUpTo(1, MaxW) }

\* ShopMonitor.take_screenshot
take_screenshot(drv, outcome) == IF ~drv THEN NoShot ELSE outcome

\* "from image_recognition import detect_ice_butterfly": the module defines
\* the class ImageRecognition and no function of that name, so the import
\* raises ImportError.
ImportRaises == TRUE

\* ShopMonitor.monitor_for_ice_butterfly, given the screenshot taken: the
\* ImportError is caught by the method's except block, which returns False.
monitor_for_ice_butterfly(ref, thr, shot) ==
    IF shot = NoShot THEN FALSE
    ELSE IF ImportRaises THEN FALSE
    ELSE detect_ice_butterfly(ref, thr, shot).found

\* The value a call leaves behind for its caller.
Result(op, ret, path, steps, note) ==
    [op |-> op, ret |-> ret, path |-> path, steps |-> steps, note |-> note,
     env |-> NoEnv]

\* The value a session setup leaves behind, with what the browser and the
\* page did during it.
SessionResult(op, r, env) ==
    [op |-> op, ret |-> r.ret, path |-> NoShot, steps |-> r.steps,
     note |-> IF r.ret THEN "restarted" ELSE "failed", env |-> env]

SetMonitor(m) ==
    /\ driver' = m.driver
    /\ is_logged_in' = m.is_logged_in
    /\ shop_accessible' = m.shop_accessible

\* The start_monitoring command up to its first reply: refused while
\* monitoring_active is set, otherwise the handler waits on
\* ctx.send("Starting ...") before it starts the loops.
StartMonitoringBegin ==
    /\ mainState.pc = "running"
    /\ Quiet
    /\ IF monitoring_active
       THEN /\ finished' = Result("start_monitoring", FALSE, NoShot, <<>>,
                                "already active")
            /\ UNCHANGED starting
       ELSE /\ starting < MaxPending
            /\ starting' = starting + 1
            /\ UNCHANGED finished
    /\ UNCHANGED <<detectorVars, call, viz, earlier, threads>>
    /\ UNCHANGED <<config, mainState, bot_status, monitoring_active,
                   checks_performed, task_running, status_task_running,
                   session_initialized, monitorVars, check, lookup>>

\* The rest of a start_monitoring handler: monitoring_task.start() and
\* status_update_task.start().  Loop.start raises RuntimeError on a loop
\* that is running, which ends the handler.
StartMonitoringStart ==
    /\ mainState.pc = "running"
    /\ Quiet
    /\ starting > 0
    /\ starting' = starting - 1
    /\ IF task_running
       THEN /\ finished' = Result("start_monitoring", FALSE, NoShot,
                                <<"monitoring_task.start">>, "already launched")
            /\ UNCHANGED <<task_running, status_task_running>>
       ELSE /\ task_running' = TRUE
            /\ IF status_task_running
               THEN /\ finished' = Result("start_monitoring", FALSE, NoShot,
                                        <<"monitoring_task.start",
                                          "status_update_task.start">>,
                                        "already launched")
                    /\ UNCHANGED status_task_running
               ELSE /\ status_task_running' = TRUE
                    /\ finished' = Result("start_monitoring", TRUE, NoShot,
                                        <<"monitoring_task.start",
                                          "status_update_task.start">>,
                                        "started")
    /\ UNCHANGED <<detectorVars, call, viz, earlier, threads>>
    /\ UNCHANGED <<config, mainState, bot_status, monitoring_active,
                   checks_performed, session_initialized, monitorVars, check,
                   lookup>>

\* The stop_monitoring command: refused while monitoring_active is not
\* set, otherwise both loops are cancelled and the monitor is cleaned up.
StopMonitoring ==
    /\ mainState.pc = "running"
    /\ Quiet
    /\ IF ~monitoring_active
       THEN /\ finished' = Result("stop_monitoring", FALSE, NoShot, <<>>,
                                "not active")
            /\ UNCHANGED <<task_running, status_task_running, driver,
                           is_logged_in, shop_accessible>>
       ELSE \E quitRaises \in BOOLEAN :
                /\ task_running' = FALSE
                /\ status_task_running' = FALSE
                /\ SetMonitor(cleanup(Monitor, quitRaises))
                /\ finished' = Result("stop_monitoring", TRUE, NoShot, <<>>,
                                    "stopped")
    /\ UNCHANGED <<detectorVars, call, viz, earlier, threads>>
    /\ UNCHANGED <<config, mainState, bot_status, monitoring_active,
                   checks_performed, starting, session_initialized,
                   last_screenshot_path, check, lookup>>

\* The "Monitoring Status" field of the status command.
StatusField(active) == IF active THEN "Active" ELSE "Inactive"

\* The status command.
Status ==
    /\ mainState.pc = "running"
    /\ Quiet
    /\ finished' = Result("status", monitoring_active, NoShot, <<>>,
                        StatusField(monitoring_active))
    /\ UNCHANGED <<detectorVars, call, viz, earlier, threads>>
    /\ UNCHANGED <<config, mainState, bot_status, botVars, monitorVars, check,
                   lookup>>

\* The test_image command: refused without a driver; otherwise a
\* screenshot is taken and, when there is one, given to the detector.
TestImage ==
    /\ mainState.pc = "running"
    /\ Quiet
    /\ IF ~driver
       THEN /\ finished' = Result("test_image", FALSE, NoShot, <<>>, "no driver")
            /\ UNCHANGED <<call, last_screenshot_path>>
       ELSE \E outcome \in ShotOutcomes :
                LET shot == take_screenshot(driver, outcome)
                IN  IF shot = NoShot
                    THEN /\ finished' = Result("test_image", FALSE, NoShot, <<>>,
                                             "no screenshot")
                         /\ UNCHANGED <<call, last_screenshot_path>>
                    ELSE /\ last_screenshot_path' = shot
                         /\ call' = CallRecord("detect", shot,
                                detect_ice_butterfly(reference_image,
                                                     threshold, shot))
                         /\ finished' = Result("test_image", TRUE, shot, <<>>,
                                             "tested")
    /\ UNCHANGED <<detectorVars, viz, earlier, threads>>
    /\ UNCHANGED <<config, mainState, bot_status, botVars, driver,
                   is_logged_in, shop_accessible, check, lookup>>

\* The restart command: ShopMonitor.restart_session and a reply.
Restart ==
    /\ mainState.pc = "running"
    /\ Quiet
    /\ \E env \in SessionEnvs :
           LET r == restart_session(Monitor, env)
           IN  /\ SetMonitor(r.m)
               /\ finished' = SessionResult("restart", r, env)
               /\ session_initialized' = (session_initialized \/ r.ret)
    /\ UNCHANGED <<detectorVars, call, viz, earlier, threads>>
    /\ UNCHANGED <<config, mainState, bot_status, monitoring_active,
                   checks_performed, task_running, status_task_running,
                   starting, last_screenshot_path, check, lookup>>

\* A counter that also counts an iteration that returned during the setup.
CountedAlways(n, aborted) == n + 1

\* checks_performed after an iteration: the increment follows the return of
\* monitor_for_ice_butterfly, which an iteration that returned during the
\* setup does not reach.
Counted(n, aborted) == IF aborted THEN n ELSE n + 1

\* One iteration of IceButterflyBot.monitoring_task.  The first iteration
\* sets monitoring_active and runs the session setup, returning when a
\* setup call fails; every other iteration goes straight to the check.
MonitoringTask ==
    /\ mainState.pc = "running"
    /\ Quiet
    /\ task_running
    /\ checks_performed < MaxChecks
    /\ \E env \in IF monitoring_active
                  THEN { [driver |-> "ok", nav |-> TRUE, login |-> "guest",
                          shop |-> "found"] }
                  ELSE SessionEnvs,
          outcome \in ShotOutcomes :
           LET first == ~monitoring_active
               setup == IF first THEN SessionSteps(Monitor, env)
                        ELSE [ret |-> TRUE, m |-> Monitor, steps |-> <<>>]
               shot  == take_screenshot(setup.m.driver, outcome)
               is_found == monitor_for_ice_butterfly(reference_image, threshold, shot)
               path  == IF shot = NoShot THEN last_screenshot_path ELSE shot
           IN  /\ SetMonitor(setup.m)
               /\ session_initialized' =
                      (session_initialized \/ (first /\ setup.ret))
               /\ checks_performed' =
                      Counted(checks_performed, first /\ ~setup.ret)
               /\ IF first /\ ~setup.ret
                  THEN /\ monitoring_active' = TRUE
                       /\ check' = [done |-> FALSE, aborted |-> TRUE,
                                    shot |-> NoShot, is_found |-> FALSE,
                                    notified |-> 0]
                       /\ UNCHANGED <<last_screenshot_path, task_running, call>>
                  ELSE /\ last_screenshot_path' = path
                       /\ check' = [done |-> TRUE, aborted |-> FALSE,
                                    shot |-> shot, is_found |-> is_found,
                                    notified |-> IF is_found THEN 1 ELSE 0]
                       /\ IF is_found /\ path # NoShot
                          THEN /\ call' = CallRecord("detect", path,
                                      detect_ice_butterfly(reference_image,
                                                           threshold, path))
                               /\ task_running' = FALSE
                               /\ monitoring_active' = FALSE
                          ELSE /\ monitoring_active' = TRUE
                               /\ UNCHANGED <<task_running, call>>
    /\ UNCHANGED <<detectorVars, viz, earlier, threads>>
    /\ UNCHANGED <<config, mainState, bot_status, status_task_running,
                   starting, finished, lookup>>

\* The program at its start: any configuration; the detector variables hold
\* what ImageRecognition(Config.REFERENCE_IMAGE_PATH, Config.MATCH_THRESHOLD)
\* gives once the bot builds it.
InitApp ==
    /\ config \in Configs
    /\ Constructed(DefaultReferencePath, config.MATCH_THRESHOLD)
    /\ NotStarted

NextApp ==
    \/ Main
    \/ BotRunEnds
    \/ StartMonitoringBegin
    \/ StartMonitoringStart
    \/ MonitoringTask
    \/ Consume

SpecApp == InitApp /\ [][NextApp]_vars

----------------------------------------------------------------------------
\* The bot once main() has started it, driven by its commands

\* main() has passed validation on the default configuration and bot.run
\* is serving commands.
InitBot ==
    /\ config = [DISCORD_BOT_TOKEN |-> "token", MONITORING_INTERVAL |-> 10,
                 MATCH_THRESHOLD |-> DefaultThreshold]
    /\ refFile \in FilesOf(ImagesUpTo(1, 1))
    /\ Constructed(DefaultReferencePath, DefaultThreshold)
    /\ validate_environment(config, refFile)
    /\ mainState = [pc |-> "running", exit |-> -1, web |-> TRUE, bot |-> TRUE]
    /\ bot_status = [active |-> TRUE, checks_performed |-> 0,
                     ice_butterfly_found |-> FALSE, last_screenshot |-> NoShot]
    /\ Fresh

NextBot ==
    \/ StartMonitoringBegin
    \/ StartMonitoringStart
    \/ StopMonitoring
    \/ Status
    \/ TestImage
    \/ Restart
    \/ MonitoringTask
    \/ Consume

SpecBot == InitBot /\ [][NextBot]_vars

----------------------------------------------------------------------------
\* ShopMonitor on its own, its methods called one after another

SetupDriver ==
    /\ Quiet
    /\ \E d \in DriverOutcomes :
           LET r == setup_driver(Monitor, d)
           IN  /\ SetMonitor(r.m)
               /\ finished' = Result("setup_driver", r.ret, NoShot, <<>>, d)
    /\ UNCHANGED <<detectorVars, call, viz, earlier, threads>>
    /\ UNCHANGED <<config, mainState, bot_status, botVars,
                   last_screenshot_path, check, lookup>>

NavigateToGame ==
    /\ Quiet
    /\ \E loaded \in BOOLEAN :
           LET r == navigate_to_game(Monitor, loaded)
           IN  /\ SetMonitor(r.m)
               /\ finished' = Result("navigate_to_game", r.ret, NoShot, <<>>,
                                     IF loaded THEN "loaded" ELSE "raises")
    /\ UNCHANGED <<detectorVars, call, viz, earlier, threads>>
    /\ UNCHANGED <<config, mainState, bot_status, botVars,
                   last_screenshot_path, check, lookup>>

LoginAsGuest ==
    /\ Quiet
    /\ \E l \in LoginOutcomes :
           LET r == login_as_guest(Monitor, l)
           IN  /\ SetMonitor(r.m)
               /\ finished' = Result("login_as_guest", r.ret, NoShot, <<>>, l)
    /\ UNCHANGED <<detectorVars, call, viz, earlier, threads>>
    /\ UNCHANGED <<config, mainState, bot_status, botVars,
                   last_screenshot_path, check, lookup>>

AccessShop ==
    /\ Quiet
    /\ \E sh \in ShopOutcomes :
           LET r == access_shop(Monitor, sh)
           IN  /\ SetMonitor(r.m)
               /\ finished' = Result("access_shop", r.ret, NoShot, <<>>, sh)
    /\ UNCHANGED <<detectorVars, call, viz, earlier, threads>>
    /\ UNCHANGED <<config, mainState, bot_status, botVars,
                   last_screenshot_path, check, lookup>>

\* A call of take_screenshot; the note says what became of the save.
TakeScreenshot ==
    /\ Quiet
    /\ \E outcome \in ShotOutcomes :
           LET shot == take_screenshot(driver, outcome)
           IN  /\ last_screenshot_path' =
                      IF shot = NoShot THEN last_screenshot_path ELSE shot
               /\ finished' = Result("take_screenshot", shot # NoShot, shot, <<>>,
                                     IF ~driver THEN "no driver"
                                     ELSE IF outcome.kind = "nopath" THEN "raises"
                                     ELSE IF outcome.kind = "missing" THEN "not saved"
                                     ELSE "saved")
    /\ UNCHANGED <<detectorVars, call, viz, earlier, threads>>
    /\ UNCHANGED <<config, mainState, bot_status, botVars, driver,
                   is_logged_in, shop_accessible, check, lookup>>

RestartSession ==
    /\ Quiet
    /\ \E env \in SessionEnvs :
           LET r == restart_session(Monitor, env)
           IN  /\ SetMonitor(r.m)
               /\ finished' = SessionResult("restart_session", r, env)
               /\ session_initialized' = (session_initialized \/ r.ret)
    /\ UNCHANGED <<detectorVars, call, viz, earlier, threads>>
    /\ UNCHANGED <<config, mainState, bot_status, monitoring_active,
                   checks_performed, task_running, status_task_running,
                   starting, last_screenshot_path, check, lookup>>

Cleanup ==
    /\ Quiet
    /\ \E quitRaises \in BOOLEAN :
           /\ SetMonitor(cleanup(Monitor, quitRaises))
           /\ finished' = Result("cleanup", TRUE, NoShot, <<>>,
                                 IF quitRaises THEN "raises" ELSE "quit")
    /\ UNCHANGED <<detectorVars, call, viz, earlier, threads>>
    /\ UNCHANGED <<config, mainState, bot_status, botVars,
                   last_screenshot_path, check, lookup>>

\* A ShopMonitor as its constructor leaves it, beside a detector whose
\* reference file is missing.
InitMonitor ==
    /\ refFile = [kind |-> "missing", img |-> None]
    /\ InitHist

NextMonitor ==
    \/ SetupDriver
    \/ NavigateToGame
    \/ LoginAsGuest
    \/ AccessShop
    \/ TakeScreenshot
    \/ RestartSession
    \/ Cleanup
    \/ Consume

SpecMonitor == InitMonitor /\ [][NextMonitor]_vars

----------------------------------------------------------------------------
\* The search of a selector list for a button

\* One of the four searches runs on a page.
Search ==
    /\ Quiet
    /\ \E list \in SelectorLists, page \in Pages :
           LET r == FindButton(page, 1, <<>>)
           IN  lookup' = [list |-> list, page |-> page, button |-> r.button,
                          queried |-> r.queried]
    /\ UNCHANGED <<detectorVars, call, viz, earlier, threads>>
    /\ UNCHANGED <<config, mainState, bot_status, botVars, monitorVars, check,
                   finished>>

NextSearch ==
    \/ Search
    \/ Consume

SpecSearch == InitMonitor /\ [][NextSearch]_vars

----------------------------------------------------------------------------
\* Properties

IsDetect == call.op = "detect"
IsMulti == call.op = "multi"
IsDetection == IsDetect \/ IsMulti

\* (found=false, confidence=0.0, position=None) handed back to the caller.
NullResult(c) ==
    ~c.raised /\ ~c.found /\ c.confidence = Zero /\ c.position = None

\* The call got as far as comparing a score with the threshold.
Compared(c) ==
    reference_image # None /\ c.arg.kind = "image" /\ ~c.caught /\ ~c.raised

Meets(c) == MeetsThreshold(c.confidence, threshold)

\* The reference is no larger than the image in either dimension.
Fits(ref, img) == Height(ref) <= Height(img) /\ Width(ref) <= Width(img)

\* img carries an unmodified copy of ref with its top-left corner at column
\* x0, row y0 (from 0).
PastedAt(ref, img, x0, y0) ==
    /\ y0 + Height(ref) <= Height(img)
    /\ x0 + Width(ref) <= Width(img)
    /\ \A r \in 1..Height(ref) : \A c \in 1..Width(ref) :
           img[y0 + r][x0 + c] = ref[r][c]

\* img is a canvas larger than ref.
LargerCanvas(ref, img) ==
    Fits(ref, img) /\ (Height(ref) < Height(img) \/ Width(ref) < Width(img))

Offsets(ref, img) ==
    (0..(Width(img) - Width(ref))) \X (0..(Height(img) - Height(ref)))

\* Offset a = (x, y) comes no later than b in row-major order.
RowMajorLE(a, b) == a[2] < b[2] \/ (a[2] = b[2] /\ a[1] <= b[1])

\* C1 as stated: on every return path of detect_ice_butterfly, found is
\* true exactly when the returned confidence is >= the stored threshold.
C1_FoundIffMeets ==
    IsDetect => (call.found <=> Meets(call))

\* C1 amended: found is true exactly when the call reached the threshold
\* comparison and the confidence is >= the threshold; so for a threshold
\* above 0 found <=> confidence >= threshold on every return path, and at
\* threshold 0 the failure paths return found=false with confidence 0.0.
C1_FoundIffComparedAndMeets ==
    IsDetect =>
        /\ call.found <=> (Compared(call) /\ Meets(call))
        /\ threshold[1] > 0 => (call.found <=> Meets(call))
        /\ ~Compared(call) => NullResult(call)

C1_Witness ==
    /\ IsDetect /\ Compared(call) /\ call.found
    /\ call.confidence = One /\ threshold = <<1, 1>>

\* C2 as stated: on every return path of detect_multiple_scales, found is
\* true exactly when the returned best confidence is >= the threshold.
C2_MultiFoundIffMeets ==
    IsMulti => (call.found <=> Meets(call))

\* C2 amended: found is true exactly when the call reached the scale loop
\* (reference loaded, screenshot exists and decodes) and the best confidence
\* is >= the threshold, also when no scale was valid; the early failure
\* returns give found=false with confidence 0.0, whatever the threshold.
C2_MultiFoundIffComparedAndMeets ==
    IsMulti =>
        /\ call.found <=> (Compared(call) /\ Meets(call))
        /\ threshold[1] > 0 => (call.found <=> Meets(call))
        /\ ~Compared(call) => NullResult(call)

C2_Witness ==
    /\ IsMulti /\ Compared(call) /\ call.found
    /\ call.position = None /\ threshold = <<0, 1>>

\* C3: detect_ice_butterfly returns exactly (False, 0.0, None) whenever the
\* reference was never loaded, the screenshot path does not exist, or the
\* screenshot cannot be decoded.
C3_NullOnLoadFailure ==
    (IsDetect /\ (reference_image = None
                    \/ call.arg.kind \in {"missing", "undecodable"}))
        => NullResult(call)

C3_Witness ==
    /\ IsDetect /\ reference_image # None
    /\ call.arg.kind = "undecodable" /\ NullResult(call)

\* C4: if the reference is wider or taller than the screenshot,
\* detect_ice_butterfly returns (False, 0.0, None) and raises nothing.
C4_GeometryGuard ==
    (IsDetect /\ reference_image # None /\ call.arg.kind = "image"
        /\ ~Fits(reference_image, call.arg.img))
        => NullResult(call)

\* C5: a detector built on a nonexistent reference path never has a
\* reference, and each of its detection calls returns the null result
\* without a file existence check or a read of the screenshot path.
C5_UnavailableShortCircuits ==
    refFile.kind = "missing" =>
        /\ reference_image = None
        /\ IsDetection => (NullResult(call) /\ call.fs = <<>>)

C5_Witness ==
    /\ refFile.kind = "missing" /\ IsMulti
    /\ call.arg.kind = "image" /\ call.fs = <<>>

\* C6 as stated: constructing the detector on a missing or undecodable
\* reference fails with an error reported to the caller.
C6_InitFails ==
    refFile.kind # "image" => initOutcome = "raised"

\* C6 amended: constructing the detector on a missing or undecodable
\* reference reports no error to the caller: the constructor returns and
\* the detector is left without a reference (reference_image is None).
C6_InitReturnsUnavailable ==
    refFile.kind # "image" =>
        (initOutcome = "returned" /\ reference_image = None)

C6_Witness ==
    /\ refFile.kind = "undecodable" /\ initOutcome = "returned"
    /\ reference_image = None

C8_GlobalMaximum ==
    (IsDetect /\ reference_image # None /\ call.arg.kind = "image"
        /\ Fits(reference_image, call.arg.img))
        => /\ call.position \in Offsets(reference_image, call.arg.img)
           /\ Response(call.arg.img, reference_image,
                       call.position[2], call.position[1]) = call.confidence
           /\ \A o \in Offsets(reference_image, call.arg.img) :
                  ScoreGE(call.confidence,
                          Response(call.arg.img, reference_image, o[2], o[1]))

C8_Witness ==
    /\ IsDetect /\ reference_image # None /\ call.arg.kind = "image"
    /\ Fits(reference_image, call.arg.img)
    /\ ~call.found /\ call.position = <<0, 1>>

C10_Deterministic ==
    (IsDetect /\ earlier.op = "detect" /\ call.arg = earlier.arg)
        => /\ call.raised = earlier.raised
           /\ call.found = earlier.found
           /\ call.confidence = earlier.confidence
           /\ call.position = earlier.position

C10_Witness ==
    /\ IsDetect /\ earlier.op = "detect" /\ call.arg = earlier.arg
    /\ call.arg.kind = "image" /\ call.found /\ earlier.found

----------------------------------------------------------------------------
\* Properties of the scale loop

ScaleIndices == [i \in 1..Len(Scales) |-> i]

\* The size the reference has after resizing by scale i.
ScaledWidth(ref, i) == Scaled(Width(ref), Scales[i])
ScaledHeight(ref, i) == Scaled(Height(ref), Scales[i])

\* Scale i gives a template of positive width and height that is no larger
\* than the screenshot in either dimension.
ScaleValid(ref, shot, i) ==
    /\ ScaledWidth(ref, i) > 0 /\ ScaledHeight(ref, i) > 0
    /\ ScaledHeight(ref, i) <= Height(shot)
    /\ ScaledWidth(ref, i) <= Width(shot)

ValidScales(ref, shot) ==
    SelectSeq(ScaleIndices, LAMBDA i : ScaleValid(ref, shot, i))

\* The maximum and its location of the screenshot matched against the
\* reference resized by scale i.
ScaleScore(ref, shot, i) ==
    MinMaxLoc(MatchTemplate(shot,
                  Resize(ref, ScaledWidth(ref, i), ScaledHeight(ref, i))))

\* The multi-scale call reached the loop over scales.
ReachedLoop(c) == c.op = "multi" /\ Compared(c)

\* C11: in a detect_multiple_scales call that reaches the loop, the scales
\* matched are exactly the scales, in order, whose resized template has
\* positive width and height and fits the screenshot; the returned
\* confidence and position are the initial (0.0, None) or come from one of
\* the matched scales, so a skipped scale contributes nothing and the
\* scales after it are still tried.
C11_MatchedIffValid ==
    ReachedLoop(call) =>
        /\ call.matched = ValidScales(reference_image, call.arg.img)
        /\ \/ (call.confidence = Zero /\ call.position = None)
           \/ \E i \in 1..Len(Scales) :
                  /\ ScaleValid(reference_image, call.arg.img, i)
                  /\ call.confidence =
                         ScaleScore(reference_image, call.arg.img, i).max_val
                  /\ call.position =
                         ScaleScore(reference_image, call.arg.img, i).max_loc

\* Scales 0.5 and 0.75 give a template of height 0 and scale 1.5 one that
\* is too wide; scales 1.0 and 1.25 in between are matched.
C11_Witness ==
    /\ ReachedLoop(call) /\ call.matched = <<3, 4>>
    /\ call.found /\ call.position = <<0, 0>>

\* The greatest of the per-scale maxima over the scales in seq.
RECURSIVE MaxScore(_, _, _)
MaxScore(ref, shot, seq) ==
    IF Len(seq) = 1 THEN ScaleScore(ref, shot, seq[1]).max_val
    ELSE LET v == ScaleScore(ref, shot, seq[1]).max_val
             m == MaxScore(ref, shot, Tail(seq))
         IN  IF ScoreGE(v, m) THEN v ELSE m

\* The earliest scale in seq whose maximum is v.
RECURSIVE EarliestWith(_, _, _, _)
EarliestWith(ref, shot, seq, v) ==
    IF ScaleScore(ref, shot, seq[1]).max_val = v THEN seq[1]
    ELSE EarliestWith(ref, shot, Tail(seq), v)

\* C12 as stated: when at least one scale is valid, detect_multiple_scales
\* returns the maximum of the per-scale scores and the position found at
\* the earliest scale with that score, whatever the scores are.
C12_MaxOverValidScales ==
    (ReachedLoop(call) /\ ValidScales(reference_image, call.arg.img) # <<>>) =>
        LET valid == ValidScales(reference_image, call.arg.img)
            best  == MaxScore(reference_image, call.arg.img, valid)
            first == EarliestWith(reference_image, call.arg.img, valid, best)
        IN  /\ call.confidence = best
            /\ call.position =
                   ScaleScore(reference_image, call.arg.img, first).max_loc

\* What does hold: C12 as stated when some valid scale scores above 0, and
\* (0.0, None) when none does.
C12_MaxOverPositiveScales ==
    (ReachedLoop(call) /\ ValidScales(reference_image, call.arg.img) # <<>>) =>
        LET valid == ValidScales(reference_image, call.arg.img)
            best  == MaxScore(reference_image, call.arg.img, valid)
            first == EarliestWith(reference_image, call.arg.img, valid, best)
        IN  IF ScoreGT(best, Zero)
            THEN /\ call.confidence = best
                 /\ call.position =
                        ScaleScore(reference_image, call.arg.img, first).max_loc
            ELSE call.confidence = Zero /\ call.position = None

\* C13 as stated: detect_multiple_scales returns position None exactly when
\* no scale was valid, then with found=false and confidence 0.0; when a
\* scale was matched the position is an offset inside the screenshot.
C13_NoneIffNoValidScale ==
    ReachedLoop(call) =>
        /\ call.position = None <=> call.matched = <<>>
        /\ call.matched = <<>> => (~call.found /\ call.confidence = Zero)
        /\ call.matched # <<>> =>
               /\ call.position \in (0..(Width(call.arg.img) - 1))
                                     \X (0..(Height(call.arg.img) - 1))

----------------------------------------------------------------------------
\* Properties of the detector's state and of the visualization

IsVisualize == viz.op = "visualize"

\* What the call c returns on a detector freshly built on the same
\* reference file and threshold.
OnFreshDetector(c) ==
    CallRecord(c.op, c.arg,
        IF c.op = "detect"
        THEN detect_ice_butterfly(LoadReferenceImage(refFile).image, threshold, c.arg)
        ELSE detect_multiple_scales(LoadReferenceImage(refFile).image, threshold, c.arg))

\* The call failed: it returned the null result from a guard or from the
\* except block.
Failed(c) == c.op # "none" /\ (c.caught \/ c.arg.kind # "image")

\* C14: no detect_ice_butterfly, detect_multiple_scales or
\* create_detection_visualization call, successful or failing, changes the
\* stored reference image, reference path or threshold, and every detection
\* call returns what it returns on a fresh detector, whatever calls (failed
\* ones included) came before it.
C14_CallsLeaveDetector ==
    [][/\ reference_image' = reference_image
       /\ reference_image_path' = reference_image_path
       /\ threshold' = threshold
       /\ call'.op # "none" => call' = OnFreshDetector(call')]_vars

\* A detection that succeeds after a failed call on another screenshot.
C14_Witness ==
    /\ Failed(earlier) /\ earlier.caught
    /\ IsDetect /\ call.arg.kind = "image" /\ call.found
    /\ call = OnFreshDetector(call)

\* C16 as stated: create_detection_visualization never raises, returns false
\* when the screenshot is missing or undecodable, the reference is
\* unavailable or the output cannot be written, and returns true only if
\* the annotated image was written to output_path.
C16_TrueOnlyIfWritten ==
    IsVisualize =>
        /\ ~viz.raised
        /\ (viz.arg.kind # "image" \/ reference_image = None
                \/ viz.out # "writable") => ~viz.result
        /\ viz.result => viz.written

\* What does hold: no raise, false for a screenshot or reference that is
\* not there, for a position of None and for an output name without an
\* encoder; true otherwise, written or not.
C16_FalseOnCaughtFailure ==
    IsVisualize =>
        /\ ~viz.raised
        /\ viz.result <=>
               /\ viz.arg.kind = "image" /\ reference_image # None
               /\ viz.position # None /\ viz.out # "noencoder"
        /\ viz.written => viz.result

\* C17 as stated: any threshold is stored; below 0 every
\* detect_ice_butterfly call returns found=true, above the maximum score 1
\* every call returns found=false.
C17_TrivialOutsideRange ==
    IsDetect =>
        /\ initOutcome = "returned"
        /\ threshold[1] < 0 => call.found
        /\ threshold[1] > threshold[2] => ~call.found

\* C17 amended: any threshold is stored without validation.  Above 1 every
\* detect_ice_butterfly call returns found=false.  Below 0 a call that
\* fails still returns found=false, and a call that reaches the comparison
\* returns found=true exactly when its score is >= the threshold: always
\* for a threshold of -1 or less, not always between -1 and 0, where a
\* score can be lower than the threshold.
C17_TrivialAboveOneOrBelowMinusOne ==
    IsDetect =>
        /\ initOutcome = "returned"
        /\ threshold[1] > threshold[2] => ~call.found
        /\ threshold[1] < 0 =>
               /\ ~Compared(call) => ~call.found
               /\ Compared(call) => (call.found <=> Meets(call))
               /\ (Compared(call) /\ threshold[1] <= -threshold[2]) => call.found

\* Threshold -0.5 and a score of -1: not found.
C17_Witness ==
    /\ IsDetect /\ threshold = <<-1, 2>> /\ Compared(call)
    /\ call.confidence = <<-1, 1, 1>> /\ ~call.found

----------------------------------------------------------------------------
\* Properties of concurrent calls

SomeInside == \E t \in Threads : threads[t].pc = "inside"

\* C15: however detection calls of several threads interleave, no step of
\* any call writes the detector's attributes, and a call that returns while
\* other calls are under way returns what the same call returns alone on
\* the detector as built.
C15_InterleavedCallsAgree ==
    [][/\ detectorVars' = detectorVars
       /\ call' # call /\ call'.op # "none" =>
              call' = CallRecord(call'.op, call'.arg,
                         IF call'.op = "detect"
                         THEN detect_ice_butterfly(
                                  LoadReferenceImage(refFile).image,
                                  threshold, call'.arg)
                         ELSE detect_multiple_scales(
                                  LoadReferenceImage(refFile).image,
                                  threshold, call'.arg))]_vars

\* A single-scale call returns found=true while another thread is inside a
\* multi-scale call.
C15_Witness ==
    /\ IsDetect /\ call.arg.kind = "image" /\ call.found
    /\ \E t \in Threads : threads[t].pc = "inside" /\ threads[t].op = "multi"

----------------------------------------------------------------------------
\* Properties of the application

\* C18 as stated: a monitoring check returns true exactly when the
\* detector reports found=true on the screenshot just taken, and false when
\* it reports found=false or no screenshot could be taken.
C18_MonitorFollowsDetector ==
    check.done =>
        (check.is_found <=>
            /\ check.shot # NoShot
            /\ detect_ice_butterfly(reference_image, threshold, check.shot).found)

\* C19 as stated: after every monitoring check the served bot_status has
\* the bot's checks_performed and the outcome and screenshot of the last
\* check.
C19_StatusCurrent ==
    check.done =>
        /\ bot_status.checks_performed = checks_performed
        /\ bot_status.ice_butterfly_found = check.is_found
        /\ bot_status.last_screenshot = last_screenshot_path

\* C20: Config.validate returns no error exactly when the token is not
\* empty, the interval is at least 1 and the threshold lies in [0, 1]; with
\* an error, main ends with exit code 1 and neither the web interface
\* thread nor the bot was ever started.
C20_ValidateGatesMain ==
    /\ Validate(config) = <<>> <=>
           /\ config.DISCORD_BOT_TOKEN # ""
           /\ config.MONITORING_INTERVAL >= 1
           /\ config.MATCH_THRESHOLD[1] >= 0
           /\ config.MATCH_THRESHOLD[1] <= config.MATCH_THRESHOLD[2]
    /\ Validate(config) # <<>> =>
           /\ ~mainState.web /\ ~mainState.bot
           /\ ~task_running /\ checks_performed = 0
           /\ bot_status = InitialBotStatus
           /\ mainState.pc # "start" => mainState = Exited(1, FALSE)

\* main has returned 1 on a configuration whose only error is a threshold
\* of 1.5.
C20_Witness ==
    /\ mainState = Exited(1, FALSE)
    /\ config.DISCORD_BOT_TOKEN # "" /\ config.MONITORING_INTERVAL >= 1
    /\ config.MATCH_THRESHOLD = <<3, 2>>
    /\ Len(Validate(config)) = 1

----------------------------------------------------------------------------
\* Element search (C21)

Searched == lookup.list # "none"

\* Selector i, taken alone, yields a button: find_elements does not raise
\* and the elements, checked in order, reach one that is displayed and
\* enabled before any check raises.
Yields(page, i) ==
    /\ ~page[i].raises
    /\ \E j \in 1..Len(page[i].elements) :
           /\ page[i].elements[j] = "ok"
           /\ \A k \in 1..(j - 1) : page[i].elements[k] = "hidden"

\* C21: the selectors are queried in list order; the button chosen is the
\* first displayed-and-enabled element of the earliest selector that yields
\* one; no selector after it is queried; a selector that raises is skipped
\* and the search goes on; without a yielding selector all are queried and
\* no button is chosen.
C21_FirstMatchWins ==
    Searched =>
        LET page == lookup.page
            hits == { i \in 1..Len(page) : Yields(page, i) }
        IN  /\ \A k \in 1..Len(lookup.queried) : lookup.queried[k] = k
            /\ IF hits = {}
               THEN /\ lookup.button = None
                    /\ Len(lookup.queried) = Len(page)
               ELSE LET i == CHOOSE h \in hits : \A g \in hits : h <= g
                        j == CHOOSE e \in 1..Len(page[i].elements) :
                                 /\ page[i].elements[e] = "ok"
                                 /\ \A k \in 1..(e - 1) :
                                        page[i].elements[k] # "ok"
                    IN  /\ lookup.button = <<i, j>>
                        /\ Len(lookup.queried) = i

\* A search in which the first selector raised, the second matched only
\* hidden elements and the third gave the button.
C21_Witness ==
    /\ Searched
    /\ lookup.page[1].raises
    /\ ~lookup.page[2].raises
    /\ lookup.page[2].elements # <<>>
    /\ lookup.button # None
    /\ lookup.button[1] = 3

----------------------------------------------------------------------------
\* Stopping and starting (C22, C23)

\* A stop_monitoring command has just gone through its stopping branch.
Stopped == finished.op = "stop_monitoring" /\ finished.note = "stopped"

\* C22 as stated: once stop_monitoring has stopped an active monitoring,
\* monitoring_active is false, the status command shows Inactive, and
\* start_monitoring is not refused as already active.
C22_StopDeactivates ==
    Stopped =>
        /\ ~monitoring_active
        /\ StatusField(monitoring_active) = "Inactive"


\* C23 as stated: no start_monitoring handler calls start() on a loop that
\* is running (Loop.start answers that with "already launched"), and a
\* start_monitoring refused as already active starts nothing.
C23_StartOnlyWhenStopped ==
    finished.op = "start_monitoring" =>
        /\ finished.note # "already launched"
        /\ finished.note = "already active" => finished.steps = <<>>


----------------------------------------------------------------------------
\* The monitoring loop (C24, C25, C28)

\* C24 as stated: a monitoring iteration reaches the shop check (and
\* counts it) only when the four setup calls have succeeded before it,
\* in the first iteration or in a retry.
C24_CheckOnlyAfterSetup ==
    check.done => session_initialized


\* C25, the case it speaks of: an iteration that got is_found = true has
\* sent one found-notification, stopped the loop and cleared
\* monitoring_active.
C25_FoundStopsMonitoring ==
    (check.done /\ check.is_found) =>
        /\ check.notified = 1
        /\ ~task_running
        /\ ~monitoring_active

\* C25: no iteration gets is_found = true, the import inside
\* monitor_for_ice_butterfly failing every time.
C25_NoIterationFinds == ~check.is_found

\* A monitoring_task iteration has just ended.
Iterated == check = NoCheck /\ check' # NoCheck

\* C28: checks_performed never decreases; an iteration in which
\* monitor_for_ice_butterfly returned adds exactly one; an iteration that
\* returned during the setup, and every command, leaves it as it was.
C28_ChecksCounted ==
    [][ /\ checks_performed' >= checks_performed
        /\ (Iterated /\ check'.done) => checks_performed' = checks_performed + 1
        /\ (Iterated /\ check'.aborted) => checks_performed' = checks_performed
        /\ ~Iterated => checks_performed' = checks_performed ]_vars

\* Two counted iterations after a first one that returned during the setup,
\* with no successful setup since.
C28_Witness ==
    /\ check.done
    /\ checks_performed = 2
    /\ monitoring_active
    /\ ~session_initialized


----------------------------------------------------------------------------
\* ShopMonitor (C26, C27, C29)

\* C26 as stated: get_shop_status never shows logged_in or shop_accessible
\* true together with driver_active false.
C26_NoSessionWithoutDriver ==
    LET status == get_shop_status(Monitor, last_screenshot_path)
    IN  ~status.driver_active => (~status.logged_in /\ ~status.shop_accessible)

Restarted == finished.op = "restart_session"

\* The setup calls that a restart must have made, given what the browser
\* and the page did: each call up to and including the first that fails.
ExpectedSteps(env) ==
    IF env.driver # "ok" THEN <<"setup_driver">>
    ELSE IF ~env.nav THEN <<"setup_driver", "navigate_to_game">>
    ELSE IF env.login \notin { "guest", "account" }
    THEN <<"setup_driver", "navigate_to_game", "login_as_guest">>
    ELSE <<"setup_driver", "navigate_to_game", "login_as_guest", "access_shop">>

\* C27: restart_session returns true only with a driver set and both
\* is_logged_in and shop_accessible true; the three attributes are what
\* the calls of this restart made of them, nothing being kept from before;
\* and the calls stop with the first that fails, on which it returns false.
C27_RestartAllOrFalse ==
    Restarted =>
        LET env == finished.env
            loggedIn == /\ env.driver = "ok"
                        /\ env.nav
                        /\ env.login \in { "guest", "account" }
        IN  /\ finished.ret => (driver /\ is_logged_in /\ shop_accessible)
            /\ finished.ret <=> (loggedIn /\ env.shop = "found")
            /\ finished.steps = ExpectedSteps(env)
            /\ driver <=> env.driver # "fail"
            /\ is_logged_in <=> loggedIn
            /\ shop_accessible <=> (loggedIn /\ env.shop = "found")

\* A restart that got as far as a failing login_as_guest.
C27_Witness ==
    /\ Restarted
    /\ ~finished.ret
    /\ finished.steps = <<"setup_driver", "navigate_to_game", "login_as_guest">>
    /\ driver
    /\ ~is_logged_in

ScreenshotTaken == finished.op = "take_screenshot"

\* C29 as stated: take_screenshot returns None without a driver and when
\* the save fails, and a returned path is what last_screenshot_path holds.
C29_NoneUnlessSaved ==
    ScreenshotTaken =>
        /\ finished.note # "saved" => ~finished.ret
        /\ finished.ret => last_screenshot_path = finished.path
====
